---------------------------- MODULE Spec2Model ----------------------------
(***************************************************************************)
(* A model of bin/minify-css-map.mjs: the CSS minifier (minifyCss), the    *)
(* per-line map builder (generateSourceMap), the per-file processor        *)
(* (minifyCssFile) and the recursive directory walk (processDirectory,     *)
(* startMinification).                                                     *)
(*                                                                         *)
(* Texts, file names and paths are sequences of one-character strings, so  *)
(* that the regular expressions and the path functions are computed        *)
(* character by character, as the code computes them.                      *)
(***************************************************************************)
EXTENDS Integers, Sequences, FiniteSets, TLC

VARIABLES
  css,              \* pure-function runs: the input text
  fileName,         \* pure-function runs: the input file name
  outs,             \* pure-function runs: the successive results of minifyCss
  srcmap,           \* pure-function runs: the result of generateSourceMap
  targetDirectory,  \* process.argv[2]
  fs,               \* the file system: path -> [kind, content]
  fs0,              \* the file system when the process started
  pc,               \* where the process is
  stack,            \* the active processDirectory calls, innermost last
  cur,              \* the locals of the active minifyCssFile call
  log               \* every file-system operation and console line, in order

vars == <<css, fileName, outs, srcmap, targetDirectory, fs, fs0, pc, stack, cur, log>>

pureVars == <<css, fileName, outs, srcmap>>
runVars == <<targetDirectory, fs, fs0, pc, stack, cur, log>>

---------------------------------------------------------------------------
(* Bounds. *)

\* longest input text of minifyCss over the full alphabet
MaxCssLen == 4
\* longest input text of minifyCss over the comment alphabet
MaxCommentLen == 8
\* longest input text of generateSourceMap
MaxMapLen == 9
\* deepest nesting of directories below the target directory
MaxDepth == 1
\* most entries (files and directories) in the tree below the target directory
MaxEntries == 4

---------------------------------------------------------------------------
(* Sequences of characters. *)

TextsOver(alphabet, n) == UNION {[1..k -> alphabet] : k \in 0..n}

\* s has pat at position i (1-based)
MatchesAt(s, pat, i) ==
  /\ i >= 1
  /\ i + Len(pat) - 1 <= Len(s)
  /\ \A k \in 1..Len(pat) : s[i + k - 1] = pat[k]

\* String.prototype.includes
Includes(s, pat) == \E i \in 1..(Len(s) + 1) : MatchesAt(s, pat, i)

\* String.prototype.endsWith
EndsWith(s, suffix) ==
  /\ Len(suffix) <= Len(s)
  /\ MatchesAt(s, suffix, Len(s) - Len(suffix) + 1)

\* the least j >= i at which s has pat, 0 when there is none
IndexOfFrom(s, pat, i) ==
  LET hits == {j \in i..Len(s) : MatchesAt(s, pat, j)}
  IN IF hits = {} THEN 0 ELSE CHOOSE j \in hits : \A h \in hits : j <= h

\* the characters the regular expression class \s matches (those the model uses)
Whitespace == {" ", "\n", "\t", "\r"}

\* the class [{}:;]
Punctuation == {"{", "}", ":", ";"}

\* the least j >= i at which s has no whitespace, Len(s) + 1 when there is none
SkipWhitespace(s, i) ==
  LET stops == {j \in i..Len(s) : s[j] \notin Whitespace}
  IN IF stops = {} THEN Len(s) + 1
     ELSE CHOOSE j \in stops : \A h \in stops : j <= h

---------------------------------------------------------------------------
(* minifyCss: four global replacements, each a left-to-right scan for      *)
(* non-overlapping matches.                                                *)

RECURSIVE RemoveCommentsFrom(_, _)
\* .replace(/\/\*[\s\S]*?\*\//g, ''): a match is "/*" up to the next "*/"
RemoveCommentsFrom(s, i) ==
  IF i > Len(s) THEN <<>>
  ELSE LET close == IndexOfFrom(s, <<"*", "/">>, i + 2)
       IN IF MatchesAt(s, <<"/", "*">>, i) /\ close # 0
          THEN RemoveCommentsFrom(s, close + 2)
          ELSE <<s[i]>> \o RemoveCommentsFrom(s, i + 1)

RemoveComments(s) == RemoveCommentsFrom(s, 1)

RECURSIVE CollapseWhitespaceFrom(_, _)
\* .replace(/\s+/g, ' '): a match is a maximal run of whitespace
CollapseWhitespaceFrom(s, i) ==
  IF i > Len(s) THEN <<>>
  ELSE IF s[i] \in Whitespace
       THEN <<" ">> \o CollapseWhitespaceFrom(s, SkipWhitespace(s, i))
       ELSE <<s[i]>> \o CollapseWhitespaceFrom(s, i + 1)

CollapseWhitespace(s) == CollapseWhitespaceFrom(s, 1)

RECURSIVE RemoveSpacesAroundFrom(_, _)
\* .replace(/\s*([{}:;])\s*/g, '$1'): a match is a whitespace run, one
\* punctuation character and the whitespace run after it
RemoveSpacesAroundFrom(s, i) ==
  IF i > Len(s) THEN <<>>
  ELSE LET k == SkipWhitespace(s, i)
       IN IF k <= Len(s) /\ s[k] \in Punctuation
          THEN <<s[k]>> \o RemoveSpacesAroundFrom(s, SkipWhitespace(s, k + 1))
          ELSE <<s[i]>> \o RemoveSpacesAroundFrom(s, i + 1)

RemoveSpacesAround(s) == RemoveSpacesAroundFrom(s, 1)

RECURSIVE RemoveSemicolonsFrom(_, _)
\* .replace(/;}/g, '}')
RemoveSemicolonsFrom(s, i) ==
  IF i > Len(s) THEN <<>>
  ELSE IF MatchesAt(s, <<";", "}">>, i)
       THEN <<"}">> \o RemoveSemicolonsFrom(s, i + 2)
       ELSE <<s[i]>> \o RemoveSemicolonsFrom(s, i + 1)

RemoveSemicolons(s) == RemoveSemicolonsFrom(s, 1)

minifyCss(text) ==
  RemoveSemicolons(RemoveSpacesAround(CollapseWhitespace(RemoveComments(text))))

---------------------------------------------------------------------------
(* generateSourceMap *)

Digit(d) == <<"0", "1", "2", "3", "4", "5", "6", "7", "8", "9">>[d + 1]

RECURSIVE NumberToString(_)
\* the decimal digits of a non-negative integer, as a template literal
\* formats it
NumberToString(n) ==
  IF n < 10 THEN <<Digit(n)>>
  ELSE NumberToString(n \div 10) \o <<Digit(n % 10)>>

RECURSIVE SplitFrom(_, _, _)
\* String.prototype.split on a one-character separator: the segments between
\* the separators, the empty ones included
SplitFrom(s, sep, i) ==
  LET j == IndexOfFrom(s, <<sep>>, i)
  IN IF j = 0 THEN <<SubSeq(s, i, Len(s))>>
     ELSE <<SubSeq(s, i, j - 1)>> \o SplitFrom(s, sep, j + 1)

Split(s, sep) == SplitFrom(s, sep, 1)

\* MapEntry numbering the lines from 0, as the index does
MapEntry_ZeroBased(line, index) ==
  [original |-> line,
   generated |-> NumberToString(index) \o <<":", "0">>]

\* one element of mapEntries; index is the 0-based index lines.map passes
MapEntry(line, index) ==
  [original |-> line,
   generated |-> NumberToString(index + 1) \o <<":", "0">>]

generateSourceMap(cssContent, cssFileName) ==
  LET lines == Split(cssContent, "\n")
      mapEntries == [i \in 1..Len(lines) |-> MapEntry(lines[i], i - 1)]
  IN [version |-> 3,
      file |-> cssFileName,
      sources |-> <<cssFileName>>,
      mappings |-> mapEntries]

---------------------------------------------------------------------------
(* node:path, for the paths the program builds: relative or absolute, with *)
(* single "/" separators, no trailing separator and no ".." segment.       *)

DotCss == <<".", "c", "s", "s">>
DotMinCss == <<".", "m", "i", "n", ".", "c", "s", "s">>
DotCssMap == <<".", "c", "s", "s", ".", "m", "a", "p">>

\* the position of the last "/" of p, 0 when it has none
LastSlash(p) ==
  LET slashes == {i \in 1..Len(p) : p[i] = "/"}
  IN IF slashes = {} THEN 0
     ELSE CHOOSE i \in slashes : \A j \in slashes : j <= i

\* path.join(dir, file): the two joined by "/" and normalised, which drops a
\* leading "." segment
PathJoin(dir, file) ==
  IF dir = <<".">> THEN file ELSE dir \o <<"/">> \o file

\* path.dirname(p)
PathDirname(p) ==
  IF LastSlash(p) = 0 THEN <<".">>
  ELSE IF LastSlash(p) = 1 THEN <<"/">>
  ELSE SubSeq(p, 1, LastSlash(p) - 1)

\* path.basename(p): the last segment
LastSegment(p) == SubSeq(p, LastSlash(p) + 1, Len(p))

\* path.basename(p, suffix): the last segment without the suffix; a suffix
\* that is the whole path gives the empty string, a suffix that is the whole
\* last segment of a longer path is not removed
PathBasename(p, suffix) ==
  LET last == LastSegment(p)
  IN IF suffix = p THEN <<>>
     ELSE IF EndsWith(last, suffix) /\ last # suffix
          THEN SubSeq(last, 1, Len(last) - Len(suffix))
          ELSE last

---------------------------------------------------------------------------
(* The file system and the console. *)

\* no map built yet, no minifyCssFile call active
NoMap == [version |-> 0]
NoFile == [path |-> <<>>]

Dir == [kind |-> "dir"]
File(content) == [kind |-> "file", content |-> content]

Exists(files, p) == p \in DOMAIN files
IsDirectory(files, p) == Exists(files, p) /\ files[p].kind = "dir"

\* fs.readdirSync(dirPath), as a set: the names of the entries of dirPath
EntryNames(files, dirPath) ==
  {LastSegment(p) : p \in {q \in DOMAIN files : q # dirPath /\ PathDirname(q) = dirPath}}

\* the file system after fs.writeFileSync(p, content)
WriteFile(files, p, content) ==
  [q \in DOMAIN files \cup {p} |-> IF q = p THEN File(content) ELSE files[q]]

\* space characters
Spaces(n) == [i \in 1..n |-> " "]

RECURSIVE JsonEscape(_)
\* the characters of a string inside a JSON string literal
JsonEscape(t) ==
  IF t = <<>> THEN <<>>
  ELSE (CASE Head(t) = "\"" -> <<"\\", "\"">>
          [] Head(t) = "\\" -> <<"\\", "\\">>
          [] Head(t) = "\n" -> <<"\\", "n">>
          [] Head(t) = "\r" -> <<"\\", "r">>
          [] Head(t) = "\t" -> <<"\\", "t">>
          [] OTHER -> <<Head(t)>>) \o JsonEscape(Tail(t))

JsonString(t) == <<"\"">> \o JsonEscape(t) \o <<"\"">>

\* "key": at the given depth of indentation
JsonKey(key, space, depth) == Spaces(space * depth) \o JsonString(key) \o <<":", " ">>

RECURSIVE JsonElements(_, _, _)
\* the elements of an array, each on its own line, a comma between each two
JsonElements(texts, space, depth) ==
  IF texts = <<>> THEN <<>>
  ELSE Spaces(space * depth) \o Head(texts)
         \o (IF Len(texts) > 1 THEN <<",">> ELSE <<>>) \o <<"\n">>
         \o JsonElements(Tail(texts), space, depth)

\* one element of mappings as JSON text, at depth 2
JsonMapEntry(entry, space) ==
  <<"{", "\n">>
    \o JsonKey(<<"o", "r", "i", "g", "i", "n", "a", "l">>, space, 3) \o JsonString(entry.original) \o <<",", "\n">>
    \o JsonKey(<<"g", "e", "n", "e", "r", "a", "t", "e", "d">>, space, 3) \o JsonString(entry.generated) \o <<"\n">>
    \o Spaces(space * 2) \o <<"}">>

\* JSON.stringify(sourceMap, null, space) for the object generateSourceMap
\* returns: its keys in order, one per line, arrays one element per line
JSONstringify(sourceMap, space) ==
  <<"{", "\n">>
    \o JsonKey(<<"v", "e", "r", "s", "i", "o", "n">>, space, 1) \o NumberToString(sourceMap.version) \o <<",", "\n">>
    \o JsonKey(<<"f", "i", "l", "e">>, space, 1) \o JsonString(sourceMap.file) \o <<",", "\n">>
    \o JsonKey(<<"s", "o", "u", "r", "c", "e", "s">>, space, 1) \o <<"[", "\n">>
    \o JsonElements([i \in 1..Len(sourceMap.sources) |-> JsonString(sourceMap.sources[i])],
                    space, 2)
    \o Spaces(space) \o <<"]", ",", "\n">>
    \o JsonKey(<<"m", "a", "p", "p", "i", "n", "g", "s">>, space, 1) \o <<"[", "\n">>
    \o JsonElements([i \in 1..Len(sourceMap.mappings) |->
                       JsonMapEntry(sourceMap.mappings[i], space)], space, 2)
    \o Spaces(space) \o <<"]", "\n">>
    \o <<"}">>

\* every order in which the elements of a set can be listed
Orders(S) ==
  {o \in [1..Cardinality(S) -> S] : \A i, j \in 1..Cardinality(S) : i # j => o[i] # o[j]}

Event(op, path) == [op |-> op, path |-> path]
Stdout(msg, path) == [op |-> "stdout", msg |-> msg, path |-> path]
Stderr(msg, path) == [op |-> "stderr", msg |-> msg, path |-> path]
WriteEvent(kind, path, source) ==
  [op |-> "write", kind |-> kind, path |-> path, source |-> source]

---------------------------------------------------------------------------
(* minifyCssFile: read the source, write the minified file, write the map. *)

\* the locals of minifyCssFile once the source is read
FileLocals(cssFilePath, cssContent) ==
  LET cssDir == PathDirname(cssFilePath)
      baseFileName == PathBasename(cssFilePath, DotCss)
  IN [path |-> cssFilePath,
      cssContent |-> cssContent,
      minifiedCss |-> minifyCss(cssContent),
      baseFileName |-> baseFileName,
      minCssFilePath |-> PathJoin(cssDir, baseFileName \o DotMinCss),
      mapFilePath |-> PathJoin(cssDir, baseFileName \o DotCssMap)]

\* ReadSource going on to the map, the minified file not written
ReadSource_MapFirst ==
  /\ pc = "read"
  /\ Exists(fs, cur.path)
  /\ fs[cur.path].kind = "file"
  /\ cur' = FileLocals(cur.path, fs[cur.path].content)
  /\ log' = Append(log, Event("read", cur.path))
  /\ pc' = "writeMap"
  /\ UNCHANGED <<targetDirectory, fs, fs0, stack>>
  /\ UNCHANGED pureVars

\* const cssContent = fs.readFileSync(cssFilePath, 'utf-8') and the
\* computation of the result and of the output paths
ReadSource ==
  /\ pc = "read"
  /\ Exists(fs, cur.path)
  /\ fs[cur.path].kind = "file"
  /\ cur' = FileLocals(cur.path, fs[cur.path].content)
  /\ log' = Append(log, Event("read", cur.path))
  /\ pc' = "writeMin"
  /\ UNCHANGED <<targetDirectory, fs, fs0, stack>>
  /\ UNCHANGED pureVars

\* fs.writeFileSync(minCssFilePath, minifiedCss)
WriteMin ==
  /\ pc = "writeMin"
  /\ ~IsDirectory(fs, cur.minCssFilePath)
  /\ fs' = WriteFile(fs, cur.minCssFilePath, cur.minifiedCss)
  /\ log' = Append(log, WriteEvent("min", cur.minCssFilePath, cur.path))
  /\ pc' = "writeMap"
  /\ UNCHANGED <<targetDirectory, fs0, stack, cur>>
  /\ UNCHANGED pureVars

\* the map written by minifyCssFile
MapText(locals) ==
  JSONstringify(generateSourceMap(locals.cssContent, locals.baseFileName \o DotCss), 2)

\* fs.writeFileSync(mapFilePath, JSON.stringify(sourceMap, null, 2)), the
\* console line, and the return to the caller
WriteMap ==
  /\ pc = "writeMap"
  /\ ~IsDirectory(fs, cur.mapFilePath)
  /\ fs' = WriteFile(fs, cur.mapFilePath, MapText(cur))
  /\ log' = log \o <<WriteEvent("map", cur.mapFilePath, cur.path),
                     Stdout("Minified", cur.path)>>
  /\ pc' = "dir"
  /\ cur' = NoFile
  /\ UNCHANGED <<targetDirectory, fs0, stack>>
  /\ UNCHANGED pureVars

---------------------------------------------------------------------------
(* processDirectory and startMinification. *)

\* IsCssSource without the test that leaves the minified files out
IsCssSource_AnyCss(file) == EndsWith(file, DotCss)

\* file.endsWith('.css') && !file.endsWith('.min.css')
IsCssSource(file) == EndsWith(file, DotCss) /\ ~EndsWith(file, DotMinCss)

Top == stack[Len(stack)]
ReplaceTop(frame) == [stack EXCEPT ![Len(stack)] = frame]

\* StartMinification without the fs.existsSync test
StartMinification_NoExistsTest ==
  /\ pc = "start"
  /\ log' = Append(log, Stdout("Starting CSS minification in:", targetDirectory))
  /\ pc' = "dir"
  /\ stack' = <<[dirPath |-> targetDirectory, listed |-> FALSE, files |-> <<>>]>>
  /\ UNCHANGED <<targetDirectory, fs, fs0, cur>>
  /\ UNCHANGED pureVars

\* console.log('Starting ...'), the fs.existsSync test, and either the error
\* line and the return or the call of processDirectory(rootDirectory)
StartMinification ==
  /\ pc = "start"
  /\ IF ~Exists(fs, targetDirectory)
     THEN /\ log' = log \o <<Stdout("Starting CSS minification in:", targetDirectory),
                             Stderr("Target directory does not exist:", targetDirectory)>>
          /\ pc' = "returned"
          /\ stack' = stack
     ELSE /\ log' = Append(log, Stdout("Starting CSS minification in:", targetDirectory))
          /\ pc' = "dir"
          /\ stack' = <<[dirPath |-> targetDirectory, listed |-> FALSE, files |-> <<>>]>>
  /\ UNCHANGED <<targetDirectory, fs, fs0, cur>>
  /\ UNCHANGED pureVars

\* const files = fs.readdirSync(dirPath): the entries, in the order the file
\* system gives them
ReadDir ==
  /\ pc = "dir"
  /\ stack # <<>>
  /\ ~Top.listed
  /\ IsDirectory(fs, Top.dirPath)
  /\ \E files \in Orders(EntryNames(fs, Top.dirPath)) :
       stack' = ReplaceTop([Top EXCEPT !.listed = TRUE, !.files = files])
  /\ log' = Append(log, Event("readdir", Top.dirPath))
  /\ UNCHANGED <<targetDirectory, fs, fs0, pc, cur>>
  /\ UNCHANGED pureVars

\* one call of the forEach callback: fs.statSync(filePath), then the call of
\* processDirectory, the call of minifyCssFile, or nothing
VisitEntry ==
  /\ pc = "dir"
  /\ stack # <<>>
  /\ Top.listed
  /\ Top.files # <<>>
  /\ LET file == Head(Top.files)
         filePath == PathJoin(Top.dirPath, file)
         rest == ReplaceTop([Top EXCEPT !.files = Tail(Top.files)])
     IN /\ Exists(fs, filePath)
        /\ IF IsDirectory(fs, filePath)
           THEN /\ stack' = Append(rest, [dirPath |-> filePath, listed |-> FALSE,
                                          files |-> <<>>])
                /\ log' = Append(log, Event("stat", filePath))
                /\ UNCHANGED <<pc, cur>>
           ELSE IF IsCssSource(file)
           THEN /\ stack' = rest
                /\ log' = log \o <<Event("stat", filePath),
                                   Event("minifyCssFile", filePath)>>
                /\ pc' = "read"
                /\ cur' = [path |-> filePath]
           ELSE /\ stack' = rest
                /\ log' = Append(log, Event("stat", filePath))
                /\ UNCHANGED <<pc, cur>>
  /\ UNCHANGED <<targetDirectory, fs, fs0>>
  /\ UNCHANGED pureVars

\* the forEach of a processDirectory call is over: the call returns
ReturnFromDirectory ==
  /\ pc = "dir"
  /\ stack # <<>>
  /\ Top.listed
  /\ Top.files = <<>>
  /\ stack' = SubSeq(stack, 1, Len(stack) - 1)
  /\ pc' = IF Len(stack) = 1 THEN "completing" ELSE "dir"
  /\ UNCHANGED <<targetDirectory, fs, fs0, cur, log>>
  /\ UNCHANGED pureVars

\* console.log('CSS minification completed.')
Complete ==
  /\ pc = "completing"
  /\ log' = Append(log, Stdout("CSS minification completed.", targetDirectory))
  /\ pc' = "done"
  /\ UNCHANGED <<targetDirectory, fs, fs0, stack, cur>>
  /\ UNCHANGED pureVars

\* the file-system call the process is about to make: its name and its path
NextCall ==
  IF pc = "read" THEN <<"read", cur.path>>
  ELSE IF pc = "writeMin" THEN <<"writeMin", cur.minCssFilePath>>
  ELSE IF pc = "writeMap" THEN <<"writeMap", cur.mapFilePath>>
  ELSE IF pc = "dir" /\ stack # <<>> /\ ~Top.listed THEN <<"readdir", Top.dirPath>>
  ELSE IF pc = "dir" /\ stack # <<>> /\ Top.files # <<>>
       THEN <<"stat", PathJoin(Top.dirPath, Head(Top.files))>>
  ELSE <<"none", <<>>>>

\* what a failed fs.writeFileSync may leave at its path: what was there, or
\* an empty file (the file was opened, and the write failed)
AfterFailedWrite(files, p) ==
  IF IsDirectory(files, p) THEN {files} ELSE {files, WriteFile(files, p, <<>>)}

\* IOError with the throws of minifyCssFile caught: the file is given up and
\* the walk goes on
IOError_FileSkipped ==
  /\ NextCall[1] # "none"
  /\ fs' \in IF NextCall[1] \in {"writeMin", "writeMap"}
             THEN AfterFailedWrite(fs, NextCall[2])
             ELSE {fs}
  /\ log' = Append(log, [op |-> "throw", call |-> NextCall[1], path |-> NextCall[2]])
  /\ pc' = IF pc \in {"read", "writeMin", "writeMap"} THEN "dir" ELSE "crashed"
  /\ cur' = IF pc \in {"read", "writeMin", "writeMap"} THEN NoFile ELSE cur
  /\ UNCHANGED <<targetDirectory, fs0, stack>>
  /\ UNCHANGED pureVars

\* a file-system call throws; nothing catches it, and the process ends
IOError ==
  /\ NextCall[1] # "none"
  /\ fs' \in IF NextCall[1] \in {"writeMin", "writeMap"}
             THEN AfterFailedWrite(fs, NextCall[2])
             ELSE {fs}
  /\ log' = Append(log, [op |-> "throw", call |-> NextCall[1], path |-> NextCall[2]])
  /\ pc' = "crashed"
  /\ UNCHANGED <<targetDirectory, fs0, stack, cur>>
  /\ UNCHANGED pureVars

---------------------------------------------------------------------------
(* Runs of the pure functions: the input is drawn from a bounded set and   *)
(* the function is applied to it.                                          *)

MinifyAlphabet == {"/", "*", " ", "\n", ";", "}", "{", ":", "a"}
CommentAlphabet == {"/", "*", "a"}
MapAlphabet == {"\n", "a"}
LineAlphabet == {"\n", "\r", "a"}

MinifyInputs ==
  TextsOver(MinifyAlphabet, MaxCssLen) \cup TextsOver(CommentAlphabet, MaxCommentLen)

MapInputs ==
  TextsOver(MapAlphabet, MaxMapLen) \cup TextsOver(LineAlphabet, MaxCssLen)

FileNameInputs == {<<"a", ".", "c", "s", "s">>, <<".", "c", "s", "s">>}

\* the process has not been started
RunIdle ==
  /\ targetDirectory = <<>>
  /\ fs = <<>>
  /\ fs0 = <<>>
  /\ pc = "idle"
  /\ stack = <<>>
  /\ cur = NoFile
  /\ log = <<>>

InitMinify ==
  /\ css \in MinifyInputs
  /\ fileName = <<>>
  /\ outs = <<>>
  /\ srcmap = NoMap
  /\ RunIdle

\* minifyCss applied to the input, then to its own result
Minify ==
  /\ pc = "idle"
  /\ Len(outs) < 2
  /\ outs' = Append(outs, minifyCss(IF outs = <<>> THEN css ELSE outs[Len(outs)]))
  /\ UNCHANGED <<css, fileName, srcmap>>
  /\ UNCHANGED runVars

NextMinify == Minify

SpecMinify == InitMinify /\ [][NextMinify]_vars

InitMap ==
  /\ css \in MapInputs
  /\ fileName \in FileNameInputs
  /\ outs = <<>>
  /\ srcmap = NoMap
  /\ RunIdle

\* generateSourceMap applied to the input
BuildMap ==
  /\ pc = "idle"
  /\ srcmap = NoMap
  /\ srcmap' = generateSourceMap(css, fileName)
  /\ UNCHANGED <<css, fileName, outs>>
  /\ UNCHANGED runVars

NextMap == BuildMap

SpecMap == InitMap /\ [][NextMap]_vars

---------------------------------------------------------------------------
(* Runs of the program: node bin/minify-css-map.mjs <targetDirectory> on a  *)
(* tree drawn from a bounded set.                                          *)

\* the contents of the source files
CssX == <<"a", " ", "{", "\n", "}">>
CssY == <<"/", "*", "c", "*", "/", "\n", "b", ";", "}">>
\* the content of an output file left by an earlier run
Stale == <<"o", "l", "d">>

\* the files a directory of the tree may hold: name and content
CandidateFiles ==
  {<<<<"a", ".", "c", "s", "s">>, CssX>>,
   <<DotCss, CssY>>,
   <<<<"a", ".", "m", "i", "n", ".", "c", "s", "s">>, Stale>>,
   <<<<"a", ".", "c", "s", "s", ".", "m", "a", "p">>, Stale>>}

\* the directory a directory of the tree may hold
SubdirName == <<"d", ".", "c", "s", "s">>

\* the values of process.argv[2]
TargetDirectories == {<<".">>, <<"r">>}

CandidateContent(name) == (CHOOSE c \in CandidateFiles : c[1] = name)[2]

RECURSIVE DirTrees(_, _)
\* every content of directory dir, nested at most depth deep: path -> entry
DirTrees(dir, depth) ==
  LET fileSets ==
        {[q \in {PathJoin(dir, c[1]) : c \in sub} |->
            File(CandidateContent(LastSegment(q)))] : sub \in SUBSET CandidateFiles}
      subdir == PathJoin(dir, SubdirName)
      subTrees ==
        IF depth = 0 THEN {<<>>}
        ELSE {<<>>} \cup {(subdir :> Dir) @@ t : t \in DirTrees(subdir, depth - 1)}
  IN {f @@ t : f \in fileSets, t \in subTrees}

\* a file outside the target directory
Outside == (<<"/", "x", ".", "c", "s", "s">> :> File(CssX))

\* every file system the process may start in: the target directory is
\* absent, is a file, or is a directory holding a tree
FileSystems(root) ==
  {Outside, (root :> File(CssX)) @@ Outside}
    \cup {(root :> Dir) @@ t :
            t \in {u \in DirTrees(root, MaxDepth) : Cardinality(DOMAIN u) <= MaxEntries}}

Init ==
  /\ targetDirectory \in TargetDirectories
  /\ fs \in FileSystems(targetDirectory)
  /\ fs0 = fs
  /\ pc = "start"
  /\ stack = <<>>
  /\ cur = NoFile
  /\ log = <<>>
  /\ css = <<>>
  /\ fileName = <<>>
  /\ outs = <<>>
  /\ srcmap = NoMap

Next ==
  \/ StartMinification
  \/ ReadDir
  \/ VisitEntry
  \/ ReturnFromDirectory
  \/ Complete
  \/ ReadSource
  \/ WriteMin
  \/ WriteMap
  \/ IOError

Spec == Init /\ [][Next]_vars

---------------------------------------------------------------------------
(* Runs of minifyCssFile alone: one call on a path drawn from a bounded    *)
(* set, with or without output files left by an earlier run.               *)

FilePathInputs ==
  {<<"a", ".", "c", "s", "s">>,
   DotCss,
   <<"r", "/", "a", ".", "c", "s", "s">>,
   <<"r", "/">> \o DotCss}

\* '<dir>/<base>.min.css' and '<dir>/<base>.css.map' for a path
\* '<dir>/<base>.css'
DocumentedMinPath(p) == SubSeq(p, 1, Len(p) - Len(DotCss)) \o DotMinCss
DocumentedMapPath(p) == SubSeq(p, 1, Len(p) - Len(DotCss)) \o DotCssMap

InitFile ==
  /\ fileName \in FilePathInputs
  /\ \E content \in {CssX, CssY}, stale \in SUBSET {DocumentedMinPath(fileName),
                                                    DocumentedMapPath(fileName)} :
       fs = (fileName :> File(content)) @@ [q \in stale |-> File(Stale)]
            @@ (PathDirname(fileName) :> Dir)
  /\ fs0 = fs
  /\ targetDirectory = <<>>
  /\ pc = "read"
  /\ stack = <<>>
  /\ cur = [path |-> fileName]
  /\ log = <<>>
  /\ css = <<>>
  /\ outs = <<>>
  /\ srcmap = NoMap

NextFile ==
  \/ ReadSource
  \/ WriteMin
  \/ WriteMap
  \/ IOError

SpecFile == InitFile /\ [][NextFile]_vars

---------------------------------------------------------------------------
(* What the claims speak of. *)

RECURSIVE UnclosedCommentFrom(_, _)
\* the position of the "/*" that no later "*/" closes, reading the text as
\* a sequence of comments from the left; 0 when every comment is closed
UnclosedCommentFrom(s, i) ==
  IF i > Len(s) THEN 0
  ELSE IF MatchesAt(s, <<"/", "*">>, i)
       THEN IF IndexOfFrom(s, <<"*", "/">>, i + 2) = 0 THEN i
            ELSE UnclosedCommentFrom(s, IndexOfFrom(s, <<"*", "/">>, i + 2) + 2)
       ELSE UnclosedCommentFrom(s, i + 1)

UnclosedComment(s) == UnclosedCommentFrom(s, 1)

RECURSIVE ClosedCommentsFrom(_, _)
\* the closed comments of the text, each with its delimiters
ClosedCommentsFrom(s, i) ==
  IF i > Len(s) THEN {}
  ELSE IF MatchesAt(s, <<"/", "*">>, i) /\ IndexOfFrom(s, <<"*", "/">>, i + 2) # 0
       THEN LET close == IndexOfFrom(s, <<"*", "/">>, i + 2)
            IN {SubSeq(s, i, close + 1)} \cup ClosedCommentsFrom(s, close + 2)
       ELSE ClosedCommentsFrom(s, i + 1)

ClosedComments(s) == ClosedCommentsFrom(s, 1)

\* C1: minifyCss is idempotent: minifying the result of minifyCss gives that
\* result again.
C1_Idempotent == Len(outs) = 2 => outs[2] = outs[1]

\* C2: the result of minifyCss never contains a semicolon immediately
\* followed by a closing brace.
C2_NoSemicolonBeforeBrace ==
  Len(outs) >= 1 => ~Includes(outs[1], <<";", "}">>)

\* C3: when the input has an unclosed comment, minifyCss removes everything
\* from its opening delimiter to the end of the input: the result is that of
\* the input cut before the delimiter.
C3_UnclosedCommentRemoved ==
  (Len(outs) >= 1 /\ UnclosedComment(css) # 0)
    => outs[1] = minifyCss(SubSeq(css, 1, UnclosedComment(css) - 1))

\* C4: when the input has a closed comment, the result of minifyCss has no
\* occurrence of that comment with its delimiters (the least the claim asks:
\* it asks the same of the comment's content).
C4_ClosedCommentAbsent ==
  Len(outs) >= 1 => \A c \in ClosedComments(css) : ~Includes(outs[1], c)

\* C6: after minifyCssFile returns for '<dir>/<base>.css' with content C,
\* '<dir>/<base>.min.css' holds minifyCss(C), '<dir>/<base>.css.map' holds
\* the map of C with file '<base>.css', sources ['<base>.css'] and version 3,
\* and the source file is as it was.
C6_OutputsOfFile ==
  (fileName # <<>> /\ pc = "dir") =>
    LET content == fs0[fileName].content
        name == LastSegment(fileName)
    IN /\ Exists(fs, DocumentedMinPath(fileName))
       /\ fs[DocumentedMinPath(fileName)] = File(minifyCss(content))
       /\ Exists(fs, DocumentedMapPath(fileName))
       /\ fs[DocumentedMapPath(fileName)] =
            File(JSONstringify([version |-> 3, file |-> name, sources |-> <<name>>,
                                mappings |-> generateSourceMap(content, name).mappings], 2))
       /\ fs[fileName] = fs0[fileName]

\* path p is below directory root, at any depth
IsBelow(p, root) ==
  IF root = <<".">> THEN p # root /\ p[1] # "/"
  ELSE Len(p) > Len(root) + 1 /\ SubSeq(p, 1, Len(root) + 1) = root \o <<"/">>

\* the events of the log with one of the given operations, in order
EventsOf(ops) == SelectSeq(log, LAMBDA e : e.op \in ops)

\* the files of the tree the process started in that are to be minified:
\* not directories, named ....css and not ....min.css
EligibleFiles ==
  {p \in DOMAIN fs0 :
     /\ IsBelow(p, targetDirectory)
     /\ fs0[p].kind = "file"
     /\ EndsWith(LastSegment(p), DotCss)
     /\ ~EndsWith(LastSegment(p), DotMinCss)}

ACss == <<"a", ".", "c", "s", "s">>
AMinCss == <<"a", ".", "m", "i", "n", ".", "c", "s", "s">>

\* C5: a run that completes has passed to minifyCssFile each file of the tree
\* that is not a directory and is named ....css and not ....min.css, once, and
\* no other file; no ....min.css file was read, and where a.css had a.min.css
\* beside it, a.min.css now holds the minified a.css.
C5_ExactlyTheCssSources ==
  pc = "done" =>
    LET calls == EventsOf({"minifyCssFile"})
        reads == EventsOf({"read"})
    IN /\ {calls[i].path : i \in 1..Len(calls)} = EligibleFiles
       /\ Len(calls) = Cardinality(EligibleFiles)
       /\ \A i \in 1..Len(reads) : ~EndsWith(reads[i].path, DotMinCss)
       /\ \A p \in EligibleFiles :
            (LastSegment(p) = ACss /\ Exists(fs0, PathJoin(PathDirname(p), AMinCss)))
              => fs[PathJoin(PathDirname(p), AMinCss)] = File(minifyCss(fs0[p].content))

\* C5's case: the tree a.css, a.min.css, d.css/a.css, walked to the end
C5_Witness ==
  /\ pc = "done"
  /\ Exists(fs0, PathJoin(targetDirectory, ACss))
  /\ Exists(fs0, PathJoin(targetDirectory, AMinCss))
  /\ Exists(fs0, PathJoin(PathJoin(targetDirectory, SubdirName), ACss))
  /\ fs[PathJoin(targetDirectory, AMinCss)] # fs0[PathJoin(targetDirectory, AMinCss)]

\* C8: when the target directory does not exist, the process prints the
\* start line and the error line and returns: it reads no directory and no
\* file, leaves the file system as it was, and prints no completion line.
C8_MissingDirectory ==
  (pc \notin {"idle", "start"} /\ fileName = <<>> /\ ~Exists(fs0, targetDirectory)) =>
    /\ pc = "returned"
    /\ log = <<Stdout("Starting CSS minification in:", targetDirectory),
               Stderr("Target directory does not exist:", targetDirectory)>>
    /\ fs = fs0
    /\ stack = <<>>

\* C8's case: the process has returned from startMinification without a
\* target directory
C8_Witness ==
  /\ pc = "returned"
  /\ ~Exists(fs0, targetDirectory)
  /\ fs0 # <<>>

\* C9: the reads and writes of the run come one file at a time: after the
\* read of a source the next operation writes its minified file and the one
\* after that writes its map (unless the operation throws); a minified file
\* is written only right after the read of its source and a map only right
\* after the minified file of the same source, both in the directory of the
\* source; so no operation of another file, nor of a directory, comes between.
C9_OneFileAtATime ==
  \A i \in 1..Len(log) :
    /\ log[i].op = "read" =>
         /\ i > 1 /\ log[i - 1] = Event("minifyCssFile", log[i].path)
         /\ i + 1 <= Len(log) =>
              \/ log[i + 1].op = "throw"
              \/ /\ log[i + 1].op = "write"
                 /\ log[i + 1].kind = "min"
                 /\ log[i + 1].source = log[i].path
    /\ (log[i].op = "write" /\ log[i].kind = "min") =>
         /\ i > 1 /\ log[i - 1] = Event("read", log[i].source)
         /\ EndsWith(log[i].path, DotMinCss)
         /\ PathDirname(log[i].path) = PathDirname(log[i].source)
         /\ i + 1 <= Len(log) =>
              \/ log[i + 1].op = "throw"
              \/ /\ log[i + 1].op = "write"
                 /\ log[i + 1].kind = "map"
                 /\ log[i + 1].source = log[i].source
    /\ (log[i].op = "write" /\ log[i].kind = "map") =>
         /\ i > 1
         /\ log[i - 1].op = "write"
         /\ log[i - 1].kind = "min"
         /\ log[i - 1].source = log[i].source
         /\ EndsWith(log[i].path, DotCssMap)
         /\ PathDirname(log[i].path) = PathDirname(log[i].source)
    /\ log[i].op = "minifyCssFile" =>
         /\ i > 1 /\ log[i - 1] = Event("stat", log[i].path)
         /\ i + 1 <= Len(log) =>
              (log[i + 1].op = "throw" \/ log[i + 1] = Event("read", log[i].path))

\* C9's case: two files minified, the second in a subdirectory, all three
\* steps of each done
C9_Witness ==
  LET maps == SelectSeq(log, LAMBDA e : e.op = "write" /\ e.kind = "map")
  IN /\ Len(maps) >= 2
     /\ PathDirname(maps[1].source) # PathDirname(maps[2].source)

\* C10: a throw of a file-system call ends the run: it is the last line of
\* the log (nothing is read or written after it, no completion line follows);
\* the files not yet reached have no output of this run; the outputs written
\* before stay as written; when the call that threw was the write of a map,
\* the minified file of that source is written and its map is not.
C10_ErrorIsFatal ==
  /\ \A i \in 1..Len(log) : log[i].op = "throw" => (i = Len(log) /\ pc = "crashed")
  /\ pc = "crashed" =>
       LET reads == EventsOf({"read"})
           writes == EventsOf({"write"})
           read == {reads[i].path : i \in 1..Len(reads)}
           last == log[Len(log)]
       IN /\ last.op = "throw"
          /\ \A i \in 1..Len(log) : log[i].op # "stdout" \/ log[i].msg # "CSS minification completed."
          /\ \A i \in 1..Len(writes) : writes[i].source \in read
          /\ \A p \in DOMAIN fs :
               (p \notin DOMAIN fs0 \/ fs[p] # fs0[p]) =>
                  \/ \E i \in 1..Len(writes) : writes[i].path = p
                  \/ (last.call \in {"writeMin", "writeMap"} /\ last.path = p)
          /\ \A i \in 1..Len(writes) :
               (last.call \in {"writeMin", "writeMap"} => writes[i].path # last.path) =>
                 fs[writes[i].path] =
                   File(IF writes[i].kind = "min"
                        THEN minifyCss(fs0[writes[i].source].content)
                        ELSE MapText(FileLocals(writes[i].source,
                                                fs0[writes[i].source].content)))
          /\ last.call = "writeMap" =>
               /\ Len(writes) >= 1
               /\ writes[Len(writes)].kind = "min"
               /\ writes[Len(writes)].source = cur.path
               /\ fs[writes[Len(writes)].path] = File(minifyCss(fs0[cur.path].content))
               /\ \A i \in 1..Len(writes) :
                    ~(writes[i].kind = "map" /\ writes[i].source = cur.path)
               /\ ~Exists(fs, last.path) \/ fs[last.path] \in {File(<<>>), File(Stale)}

\* C10's case: the write of a map threw after another file was minified in
\* full, with a third file not reached
C10_Witness ==
  /\ pc = "crashed"
  /\ log[Len(log)].call = "writeMap"
  /\ \E i \in 1..Len(log) : log[i].op = "write" /\ log[i].kind = "map"
  /\ \E p \in EligibleFiles : \A i \in 1..Len(log) : log[i].path # p


RECURSIVE JoinLines(_)
\* the lines with a newline between each two
JoinLines(lines) ==
  IF Len(lines) = 1 THEN lines[1]
  ELSE lines[1] \o <<"\n">> \o JoinLines(Tail(lines))

DigitValues ==
  [d \in {"0", "1", "2", "3", "4", "5", "6", "7", "8", "9"} |->
     CASE d = "0" -> 0 [] d = "1" -> 1 [] d = "2" -> 2 [] d = "3" -> 3
       [] d = "4" -> 4 [] d = "5" -> 5 [] d = "6" -> 6 [] d = "7" -> 7
       [] d = "8" -> 8 [] d = "9" -> 9]

RECURSIVE DecimalValue(_)
\* the number a sequence of digits writes; -1 when it is not one, or has a
\* leading zero
DecimalValue(ds) ==
  IF ds = <<>> \/ \E k \in 1..Len(ds) : ds[k] \notin DOMAIN DigitValues THEN -1
  ELSE IF Len(ds) = 1 THEN DigitValues[ds[1]]
  ELSE IF ds[1] = "0" THEN -1
  ELSE 10 * DecimalValue(SubSeq(ds, 1, Len(ds) - 1)) + DigitValues[ds[Len(ds)]]

\* "<n>:0"
IsLineColumn(g, n) ==
  /\ Len(g) >= 3
  /\ SubSeq(g, Len(g) - 1, Len(g)) = <<":", "0">>
  /\ DecimalValue(SubSeq(g, 1, Len(g) - 2)) = n

\* C7: mappings has one entry per segment of the text split on newlines (one
\* more than the text has newlines); the entries' originals are the segments
\* in order (none holds a newline, and joined by newlines they give the text
\* back); the i-th entry's generated is "<i>:0", counting from 1.
C7_MappingsPerLine ==
  srcmap # NoMap =>
    LET m == srcmap.mappings
    IN /\ Len(m) = Cardinality({i \in 1..Len(css) : css[i] = "\n"}) + 1
       /\ \A i \in 1..Len(m) : ~Includes(m[i].original, <<"\n">>)
       /\ JoinLines([i \in 1..Len(m) |-> m[i].original]) = css
       /\ \A i \in 1..Len(m) : IsLineColumn(m[i].generated, i)

\* C7's case: a map built from a text that ends in a newline and has lines
\* numbered with two digits
C7_Witness ==
  /\ srcmap # NoMap
  /\ css # <<>>
  /\ css[Len(css)] = "\n"
  /\ Len(srcmap.mappings) >= 10
  /\ srcmap.mappings[Len(srcmap.mappings)].original = <<>>

=============================================================================
